---- MODULE Spec2Model ----
(***************************************************************************)
(* Crowdfund program (src/crowdfund/crowdfund.rs) as a state machine.      *)
(*                                                                         *)
(* One campaign account, a handful of contributor record accounts of       *)
(* different shapes, two wallets and the slot clock.  Every instruction    *)
(* handler is an operator that walks the handler's code top to bottom and  *)
(* yields the accounts as they stand when the handler returns, together    *)
(* with the handler's result.  The ledger runtime then keeps the handler's *)
(* writes only when the handler returned Ok and lamports are conserved.    *)
(***************************************************************************)
EXTENDS Integers, FiniteSets, Sequences, TLC

\* ------------------------------------------------------------------ bounds

\* lamports each wallet holds at the start
InitialLamports == 1
\* last slot the clock reaches
MaxSlot == 1
\* the positive goal tried
Goal == 2

\* ------------------------------------------------------------ identities

\* wallets that can sign
Keys == {"k1", "k2"}
\* Pubkey::default(), what a zeroed campaign buffer decodes to as owner
DefaultKey == "default"

\* all lamports in existence (the campaign account starts empty)
Supply == Cardinality(Keys) * InitialLamports
\* u64::MAX, scaled down; as on the real ledger it exceeds twice the supply
U64_MAX == 2 * Supply + 1

\* borsh size of CrowdfundAccount: bool + Pubkey + 3 * u64 + bool
CampaignLen == 58
\* borsh size of ContributorAccount: one u64
ContributorLen == 8
\* buffer the repository's test allocates for the campaign account
TestCampaignLen == 200
\* borsh size of CounterAccount: bool + u64 + Pubkey
CounterLen == 41
\* buffer the repository's tests allocate for the counter account
TestCounterLen == 100

\* ------------------------------------------------------- record accounts

\* contributor record accounts a client can pass in position [1]
Records == {"r1", "r2", "r_empty", "r_foreign", "r_full"}
\* contributor_record.owner == program_id
record_owned(r) == r \notin {"r_foreign", "r_full"}
\* contributor_record.data_len()
record_len(r) ==
    IF r = "r_empty" THEN 0 ELSE ContributorLen
\* first eight bytes of the record's buffer when the ledger starts
record_init(r) == IF r = "r_full" THEN U64_MAX ELSE 0

\* ---------------------------------------------------------------- state

VARIABLES
    slot,               \* Clock::get()?.slot
    campaign_len,       \* campaign_account.data_len()
    campaign,           \* CrowdfundAccount held in campaign_account.data
    campaign_lamports,  \* campaign_account.lamports
    lamports,           \* wallet lamports, by key
    records,            \* ContributorAccount.amount held in each record buffer
    ret,                \* outcome of the latest invocation
    accepted,           \* history: amounts accepted by Contribute since Initialize
    refunded,           \* history: amounts paid out by Refund since Initialize
    withdrawn,          \* history: amounts paid out by Withdraw since Initialize
    carried,            \* history: campaign balance at the latest Initialize
    ever_withdrawn,     \* history: some Withdraw has succeeded on this account
    counter_len,        \* counter program: counter_account.data_len()
    counter,            \* counter program: CounterAccount held in counter_account.data
    inflight            \* Contribute invocations issued and not yet finished, by signer

vars == <<slot, campaign_len, campaign, campaign_lamports, lamports, records,
          ret, accepted, refunded, withdrawn, carried, ever_withdrawn,
          counter_len, counter, inflight>>

\* the counter program's account, which the crowdfund program never touches
counter_vars == <<counter_len, counter>>

\* no invocation issued
NoCall == [phase |-> "none"]

\* no invocation is waiting to be answered
Idle == ret.op = "none"

\* the accounts a handler reads and writes
World == [campaign |-> campaign, campaign_lamports |-> campaign_lamports,
          lamports |-> lamports, records |-> records]

\* ---------------------------------------------------------------- results

Result(code, msg) == [code |-> code, msg |-> msg]
Ok == Result("Ok", "")
\* spec names for the handlers' rejections: ProgramError variant + msg! text
WrongOwner == Result("IncorrectProgramId", "")
MissingAuthorization == Result("MissingRequiredSignature", "")
InvalidGoal == Result("InvalidInstructionData", "Goal must be greater than zero")
InvalidDuration == Result("InvalidInstructionData", "Duration must be greater than zero")
InvalidAmount == Result("InvalidInstructionData", "Must contribute a positive amount")
UninitializedCampaign == Result("UninitializedAccount", "")
CampaignEnded == Result("InvalidInstructionData", "Campaign has ended")
CampaignStillActive == Result("InvalidInstructionData", "Campaign still active")
AlreadyFinalizedContribute == Result("InvalidAccountData", "Campaign already finalized")
AlreadyFinalized == Result("InvalidAccountData", "Already finalized")
GoalNotReached == Result("InvalidInstructionData", "Goal not reached")
GoalWasReached == Result("InvalidInstructionData", "Goal was reached, no refunds")
NotOwner == Result("InvalidAccountData", "Only owner can withdraw")
RecordWrongOwner == Result("IncorrectProgramId", "contributor_record")
NothingToRefund == Result("InvalidAccountData", "No contribution to refund")
ArithmeticOverflow == Result("InvalidInstructionData", "")
TransferFailed == Result("Custom(1)", "insufficient lamports")
MalformedRecord == Result("BorshIoError", "deserialize")
BufferTooSmall == Result("BorshIoError", "serialize")
\* an arithmetic panic in a build with overflow checks
Panicked == Result("ProgramFailedToComplete", "arithmetic overflow")
\* the runtime's verdict on a handler that returned Ok with lamports not conserved
Unbalanced == Result("UnbalancedInstruction", "")

\* a handler's return: its result and the accounts as it leaves them
Return(res, w) == [res |-> res, world |-> w]

\* ------------------------------------------------------------- arithmetic

\* a + b on u64 without checked_add: panics or wraps, as the build decides
unchecked_add(a, b) ==
    IF a + b <= U64_MAX
    THEN {[panic |-> FALSE, val |-> a + b]}
    ELSE {[panic |-> TRUE, val |-> a],
          [panic |-> FALSE, val |-> (a + b) % (U64_MAX + 1)]}

\* a - b on u64 without checked_sub: panics or wraps, as the build decides
unchecked_sub(a, b) ==
    IF a >= b
    THEN {[panic |-> FALSE, val |-> a - b]}
    ELSE {[panic |-> TRUE, val |-> a],
          [panic |-> FALSE, val |-> (a - b) % (U64_MAX + 1)]}

\* u64::checked_add: None on overflow
checked_add(a, b) == IF a + b <= U64_MAX THEN a + b ELSE -1

\* ---------------------------------------------------------------- borsh

\* what counter.rs initialize falls back to when the buffer does not decode
ZeroCounter == [is_initialized |-> FALSE, count |-> 0, owner |-> DefaultKey]
\* CounterAccount::try_from_slice: every byte of the buffer must be consumed
counter_decodes(len) == len = CounterLen
\* counter_data.serialize into the buffer: it must hold the encoding
counter_encodes(len) == len >= CounterLen

\* a zeroed campaign buffer decodes to this
ZeroCampaign == [is_initialized |-> FALSE, owner |-> DefaultKey, goal |-> 0,
                 deadline |-> 0, total_raised |-> 0, finalized |-> FALSE]

\* CrowdfundAccount::try_from_slice: every byte of the buffer must be consumed
campaign_decodes(len) == len = CampaignLen
\* campaign.serialize into the buffer: it must hold the encoding
campaign_encodes(len) == len >= CampaignLen
\* ContributorAccount::try_from_slice on a record buffer
record_decodes(r) == record_len(r) = ContributorLen
\* contributor_data.serialize into a record buffer
record_encodes(r) == record_len(r) >= ContributorLen

\* ------------------------------------------------------------- initialize

\* initialize as it would be if re-initialization kept the finalized flag
initialize_keeps_finalized(w, len, clock, campaign_owned, owner_key, is_signer, goal, duration_slots) ==
    IF ~campaign_owned THEN {Return(WrongOwner, w)}
    ELSE IF ~is_signer THEN {Return(MissingAuthorization, w)}
    ELSE IF goal = 0 THEN {Return(InvalidGoal, w)}
    ELSE IF duration_slots = 0 THEN {Return(InvalidDuration, w)}
    ELSE { IF d.panic THEN Return(Panicked, w)
           ELSE IF ~campaign_encodes(len) THEN Return(BufferTooSmall, w)
           ELSE Return(Ok, [w EXCEPT !.campaign =
                    [is_initialized |-> TRUE, owner |-> owner_key,
                     goal |-> goal, deadline |-> d.val,
                     total_raised |-> 0,
                     finalized |-> w.campaign.finalized]])
           : d \in unchecked_add(clock, duration_slots) }

\* initialize as it would be if re-initialization kept the running total
initialize_keeps_total(w, len, clock, campaign_owned, owner_key, is_signer, goal, duration_slots) ==
    IF ~campaign_owned THEN {Return(WrongOwner, w)}
    ELSE IF ~is_signer THEN {Return(MissingAuthorization, w)}
    ELSE IF goal = 0 THEN {Return(InvalidGoal, w)}
    ELSE IF duration_slots = 0 THEN {Return(InvalidDuration, w)}
    ELSE { IF d.panic THEN Return(Panicked, w)
           ELSE IF ~campaign_encodes(len) THEN Return(BufferTooSmall, w)
           ELSE Return(Ok, [w EXCEPT !.campaign =
                    [is_initialized |-> TRUE, owner |-> owner_key,
                     goal |-> goal, deadline |-> d.val,
                     total_raised |-> w.campaign.total_raised,
                     finalized |-> FALSE]])
           : d \in unchecked_add(clock, duration_slots) }

initialize(w, len, clock, campaign_owned, owner_key, is_signer, goal, duration_slots) ==
    IF ~campaign_owned THEN {Return(WrongOwner, w)}
    ELSE IF ~is_signer THEN {Return(MissingAuthorization, w)}
    ELSE IF goal = 0 THEN {Return(InvalidGoal, w)}
    ELSE IF duration_slots = 0 THEN {Return(InvalidDuration, w)}
    ELSE { IF d.panic THEN Return(Panicked, w)
           ELSE IF ~campaign_encodes(len) THEN Return(BufferTooSmall, w)
           ELSE Return(Ok, [w EXCEPT !.campaign =
                    [is_initialized |-> TRUE, owner |-> owner_key,
                     goal |-> goal, deadline |-> d.val,
                     total_raised |-> 0, finalized |-> FALSE]])
           : d \in unchecked_add(clock, duration_slots) }

\* ------------------------------------------------------------- contribute

\* system_instruction::transfer(contributor, campaign, amount) through invoke
transfer_in(w, key, amount) ==
    [w EXCEPT !.lamports[key] = @ - amount, !.campaign_lamports = @ + amount]

\* contribute_record as it would be if the campaign were only written back
\* together with a record the program owns
contribute_record_skips_campaign(w, c, r, amount) ==
    LET old == IF record_len(r) > 0 /\ record_decodes(r) THEN w.records[r] ELSE 0
        new == checked_add(old, amount)
        w1  == IF record_owned(r) THEN [w EXCEPT !.records[r] = new] ELSE w
        tot == checked_add(c.total_raised, amount)
    IN  IF new < 0 THEN Return(ArithmeticOverflow, w)
        ELSE IF record_owned(r) /\ ~record_encodes(r) THEN Return(BufferTooSmall, w)
        ELSE IF tot < 0 THEN Return(ArithmeticOverflow, w1)
        ELSE IF ~record_owned(r) THEN Return(Ok, w1)
        ELSE Return(Ok, [w1 EXCEPT !.campaign = [c EXCEPT !.total_raised = tot]])

\* contribute_record as it would be if total_raised were set to the latest
\* amount instead of advanced by it
contribute_record_overwrites_total(w, c, r, amount) ==
    LET old == IF record_len(r) > 0 /\ record_decodes(r) THEN w.records[r] ELSE 0
        new == checked_add(old, amount)
        w1  == IF record_owned(r) THEN [w EXCEPT !.records[r] = new] ELSE w
        tot == checked_add(c.total_raised, amount)
    IN  IF new < 0 THEN Return(ArithmeticOverflow, w)
        ELSE IF record_owned(r) /\ ~record_encodes(r) THEN Return(BufferTooSmall, w)
        ELSE IF tot < 0 THEN Return(ArithmeticOverflow, w1)
        ELSE Return(Ok, [w1 EXCEPT !.campaign = [c EXCEPT !.total_raised = amount]])

\* contribute_record as it would be if every contribution were kept in one
\* record instead of the record passed in position [1]
contribute_record_shared_record(w, c, r, amount) ==
    LET old == IF record_len(r) > 0 /\ record_decodes(r) THEN w.records["r1"] ELSE 0
        new == checked_add(old, amount)
        w1  == IF record_owned(r) THEN [w EXCEPT !.records["r1"] = new] ELSE w
        tot == checked_add(c.total_raised, amount)
    IN  IF new < 0 THEN Return(ArithmeticOverflow, w)
        ELSE IF record_owned(r) /\ ~record_encodes(r) THEN Return(BufferTooSmall, w)
        ELSE IF tot < 0 THEN Return(ArithmeticOverflow, w1)
        ELSE Return(Ok, [w1 EXCEPT !.campaign = [c EXCEPT !.total_raised = tot]])

\* lines 161-192: after the transfer
contribute_record(w, c, r, amount) ==
    LET old == IF record_len(r) > 0 /\ record_decodes(r) THEN w.records[r] ELSE 0
        new == checked_add(old, amount)
        w1  == IF record_owned(r) THEN [w EXCEPT !.records[r] = new] ELSE w
        tot == checked_add(c.total_raised, amount)
    IN  IF new < 0 THEN Return(ArithmeticOverflow, w)
        ELSE IF record_owned(r) /\ ~record_encodes(r) THEN Return(BufferTooSmall, w)
        ELSE IF tot < 0 THEN Return(ArithmeticOverflow, w1)
        ELSE Return(Ok, [w1 EXCEPT !.campaign = [c EXCEPT !.total_raised = tot]])

\* contribute as it would be with both additions checked before the transfer
contribute_checks_first(w, len, clock, campaign_owned, r, key, is_signer, amount) ==
    LET c == w.campaign
        old == IF record_len(r) > 0 /\ record_decodes(r) THEN w.records[r] ELSE 0
    IN
    IF ~campaign_owned THEN {Return(WrongOwner, w)}
    ELSE IF ~is_signer THEN {Return(MissingAuthorization, w)}
    ELSE IF amount = 0 THEN {Return(InvalidAmount, w)}
    ELSE IF ~campaign_decodes(len) THEN {Return(MalformedRecord, w)}
    ELSE IF ~c.is_initialized THEN {Return(UninitializedCampaign, w)}
    ELSE IF clock >= c.deadline THEN {Return(CampaignEnded, w)}
    ELSE IF c.finalized THEN {Return(AlreadyFinalizedContribute, w)}
    ELSE IF checked_add(old, amount) < 0 THEN {Return(ArithmeticOverflow, w)}
    ELSE IF checked_add(c.total_raised, amount) < 0 THEN {Return(ArithmeticOverflow, w)}
    ELSE IF w.lamports[key] < amount THEN {Return(TransferFailed, w)}
    ELSE {contribute_record(transfer_in(w, key, amount), c, r, amount)}

\* contribute as it would be if the deadline slot itself were still open
contribute_deadline_inclusive(w, len, clock, campaign_owned, r, key, is_signer, amount) ==
    LET c == w.campaign IN
    IF ~campaign_owned THEN {Return(WrongOwner, w)}
    ELSE IF ~is_signer THEN {Return(MissingAuthorization, w)}
    ELSE IF amount = 0 THEN {Return(InvalidAmount, w)}
    ELSE IF ~campaign_decodes(len) THEN {Return(MalformedRecord, w)}
    ELSE IF ~c.is_initialized THEN {Return(UninitializedCampaign, w)}
    ELSE IF clock > c.deadline THEN {Return(CampaignEnded, w)}
    ELSE IF c.finalized THEN {Return(AlreadyFinalizedContribute, w)}
    ELSE IF w.lamports[key] < amount THEN {Return(TransferFailed, w)}
    ELSE {contribute_record(transfer_in(w, key, amount), c, r, amount)}

\* contribute as it would be if contributions were accepted after the deadline
contribute_no_deadline(w, len, clock, campaign_owned, r, key, is_signer, amount) ==
    LET c == w.campaign IN
    IF ~campaign_owned THEN {Return(WrongOwner, w)}
    ELSE IF ~is_signer THEN {Return(MissingAuthorization, w)}
    ELSE IF amount = 0 THEN {Return(InvalidAmount, w)}
    ELSE IF ~campaign_decodes(len) THEN {Return(MalformedRecord, w)}
    ELSE IF ~c.is_initialized THEN {Return(UninitializedCampaign, w)}
    ELSE IF c.finalized THEN {Return(AlreadyFinalizedContribute, w)}
    ELSE IF w.lamports[key] < amount THEN {Return(TransferFailed, w)}
    ELSE {contribute_record(transfer_in(w, key, amount), c, r, amount)}

contribute(w, len, clock, campaign_owned, r, key, is_signer, amount) ==
    LET c == w.campaign IN
    IF ~campaign_owned THEN {Return(WrongOwner, w)}
    ELSE IF ~is_signer THEN {Return(MissingAuthorization, w)}
    ELSE IF amount = 0 THEN {Return(InvalidAmount, w)}
    ELSE IF ~campaign_decodes(len) THEN {Return(MalformedRecord, w)}
    ELSE IF ~c.is_initialized THEN {Return(UninitializedCampaign, w)}
    ELSE IF clock >= c.deadline THEN {Return(CampaignEnded, w)}
    ELSE IF c.finalized THEN {Return(AlreadyFinalizedContribute, w)}
    ELSE IF w.lamports[key] < amount THEN {Return(TransferFailed, w)}
    ELSE {contribute_record(transfer_in(w, key, amount), c, r, amount)}

\* --------------------------------------------------------------- withdraw

\* withdraw as it would be without the finalized check of lines 220-223
withdraw_no_finalized_check(w, len, clock, campaign_owned, owner_key, is_signer) ==
    LET c == w.campaign IN
    IF ~campaign_owned THEN {Return(WrongOwner, w)}
    ELSE IF ~is_signer THEN {Return(MissingAuthorization, w)}
    ELSE IF ~campaign_decodes(len) THEN {Return(MalformedRecord, w)}
    ELSE IF c.owner # owner_key THEN {Return(NotOwner, w)}
    ELSE IF clock < c.deadline THEN {Return(CampaignStillActive, w)}
    ELSE IF c.total_raised < c.goal THEN {Return(GoalNotReached, w)}
    ELSE { IF s.panic THEN Return(Panicked, w)
           ELSE IF a.panic
                THEN Return(Panicked, [w EXCEPT !.campaign_lamports = s.val])
           ELSE Return(Ok, [w EXCEPT !.campaign_lamports = s.val,
                                     !.lamports[owner_key] = a.val,
                                     !.campaign.finalized = TRUE])
           : s \in unchecked_sub(w.campaign_lamports, c.total_raised),
             a \in unchecked_add(w.lamports[owner_key], c.total_raised) }

\* withdraw as it would be without the owner check of lines 209-212
withdraw_no_owner_check(w, len, clock, campaign_owned, owner_key, is_signer) ==
    LET c == w.campaign IN
    IF ~campaign_owned THEN {Return(WrongOwner, w)}
    ELSE IF ~is_signer THEN {Return(MissingAuthorization, w)}
    ELSE IF ~campaign_decodes(len) THEN {Return(MalformedRecord, w)}
    ELSE IF clock < c.deadline THEN {Return(CampaignStillActive, w)}
    ELSE IF c.finalized THEN {Return(AlreadyFinalized, w)}
    ELSE IF c.total_raised < c.goal THEN {Return(GoalNotReached, w)}
    ELSE { IF s.panic THEN Return(Panicked, w)
           ELSE IF a.panic
                THEN Return(Panicked, [w EXCEPT !.campaign_lamports = s.val])
           ELSE Return(Ok, [w EXCEPT !.campaign_lamports = s.val,
                                     !.lamports[owner_key] = a.val,
                                     !.campaign.finalized = TRUE])
           : s \in unchecked_sub(w.campaign_lamports, c.total_raised),
             a \in unchecked_add(w.lamports[owner_key], c.total_raised) }

\* withdraw as it would be without the goal check of lines 225-228
withdraw_no_goal_check(w, len, clock, campaign_owned, owner_key, is_signer) ==
    LET c == w.campaign IN
    IF ~campaign_owned THEN {Return(WrongOwner, w)}
    ELSE IF ~is_signer THEN {Return(MissingAuthorization, w)}
    ELSE IF ~campaign_decodes(len) THEN {Return(MalformedRecord, w)}
    ELSE IF c.owner # owner_key THEN {Return(NotOwner, w)}
    ELSE IF clock < c.deadline THEN {Return(CampaignStillActive, w)}
    ELSE IF c.finalized THEN {Return(AlreadyFinalized, w)}
    ELSE { IF s.panic THEN Return(Panicked, w)
           ELSE IF a.panic
                THEN Return(Panicked, [w EXCEPT !.campaign_lamports = s.val])
           ELSE Return(Ok, [w EXCEPT !.campaign_lamports = s.val,
                                     !.lamports[owner_key] = a.val,
                                     !.campaign.finalized = TRUE])
           : s \in unchecked_sub(w.campaign_lamports, c.total_raised),
             a \in unchecked_add(w.lamports[owner_key], c.total_raised) }

\* withdraw as it would be without the deadline check of lines 215-218
withdraw_no_deadline_check(w, len, clock, campaign_owned, owner_key, is_signer) ==
    LET c == w.campaign IN
    IF ~campaign_owned THEN {Return(WrongOwner, w)}
    ELSE IF ~is_signer THEN {Return(MissingAuthorization, w)}
    ELSE IF ~campaign_decodes(len) THEN {Return(MalformedRecord, w)}
    ELSE IF c.owner # owner_key THEN {Return(NotOwner, w)}
    ELSE IF c.finalized THEN {Return(AlreadyFinalized, w)}
    ELSE IF c.total_raised < c.goal THEN {Return(GoalNotReached, w)}
    ELSE { IF s.panic THEN Return(Panicked, w)
           ELSE IF a.panic
                THEN Return(Panicked, [w EXCEPT !.campaign_lamports = s.val])
           ELSE Return(Ok, [w EXCEPT !.campaign_lamports = s.val,
                                     !.lamports[owner_key] = a.val,
                                     !.campaign.finalized = TRUE])
           : s \in unchecked_sub(w.campaign_lamports, c.total_raised),
             a \in unchecked_add(w.lamports[owner_key], c.total_raised) }

\* withdraw as it would be if it paid out without setting finalized
withdraw_leaves_open(w, len, clock, campaign_owned, owner_key, is_signer) ==
    LET c == w.campaign IN
    IF ~campaign_owned THEN {Return(WrongOwner, w)}
    ELSE IF ~is_signer THEN {Return(MissingAuthorization, w)}
    ELSE IF ~campaign_decodes(len) THEN {Return(MalformedRecord, w)}
    ELSE IF c.owner # owner_key THEN {Return(NotOwner, w)}
    ELSE IF clock < c.deadline THEN {Return(CampaignStillActive, w)}
    ELSE IF c.finalized THEN {Return(AlreadyFinalized, w)}
    ELSE IF c.total_raised < c.goal THEN {Return(GoalNotReached, w)}
    ELSE { IF s.panic THEN Return(Panicked, w)
           ELSE IF a.panic
                THEN Return(Panicked, [w EXCEPT !.campaign_lamports = s.val])
           ELSE Return(Ok, [w EXCEPT !.campaign_lamports = s.val,
                                     !.lamports[owner_key] = a.val])
           : s \in unchecked_sub(w.campaign_lamports, c.total_raised),
             a \in unchecked_add(w.lamports[owner_key], c.total_raised) }

withdraw(w, len, clock, campaign_owned, owner_key, is_signer) ==
    LET c == w.campaign IN
    IF ~campaign_owned THEN {Return(WrongOwner, w)}
    ELSE IF ~is_signer THEN {Return(MissingAuthorization, w)}
    ELSE IF ~campaign_decodes(len) THEN {Return(MalformedRecord, w)}
    ELSE IF c.owner # owner_key THEN {Return(NotOwner, w)}
    ELSE IF clock < c.deadline THEN {Return(CampaignStillActive, w)}
    ELSE IF c.finalized THEN {Return(AlreadyFinalized, w)}
    ELSE IF c.total_raised < c.goal THEN {Return(GoalNotReached, w)}
    ELSE { IF s.panic THEN Return(Panicked, w)
           ELSE IF a.panic
                THEN Return(Panicked, [w EXCEPT !.campaign_lamports = s.val])
           ELSE Return(Ok, [w EXCEPT !.campaign_lamports = s.val,
                                     !.lamports[owner_key] = a.val,
                                     !.campaign.finalized = TRUE])
           : s \in unchecked_sub(w.campaign_lamports, c.total_raised),
             a \in unchecked_add(w.lamports[owner_key], c.total_raised) }

\* ----------------------------------------------------------------- refund

\* refund as it would be if the record were written back as it was read
refund_keeps_amount(w, len, clock, campaign_owned, r, key, is_signer) ==
    LET c == w.campaign
        amount == w.records[r]
    IN
    IF ~campaign_owned THEN {Return(WrongOwner, w)}
    ELSE IF ~is_signer THEN {Return(MissingAuthorization, w)}
    ELSE IF ~campaign_decodes(len) THEN {Return(MalformedRecord, w)}
    ELSE IF clock < c.deadline THEN {Return(CampaignStillActive, w)}
    ELSE IF c.total_raised >= c.goal THEN {Return(GoalWasReached, w)}
    ELSE IF ~record_owned(r) THEN {Return(RecordWrongOwner, w)}
    ELSE IF ~record_decodes(r) THEN {Return(MalformedRecord, w)}
    ELSE IF amount = 0 THEN {Return(NothingToRefund, w)}
    ELSE { IF s.panic THEN Return(Panicked, w)
           ELSE IF a.panic
                THEN Return(Panicked, [w EXCEPT !.campaign_lamports = s.val])
           ELSE Return(Ok, [w EXCEPT !.campaign_lamports = s.val,
                                     !.lamports[key] = a.val])
           : s \in unchecked_sub(w.campaign_lamports, amount),
             a \in unchecked_add(w.lamports[key], amount) }

refund(w, len, clock, campaign_owned, r, key, is_signer) ==
    LET c == w.campaign
        amount == w.records[r]
    IN
    IF ~campaign_owned THEN {Return(WrongOwner, w)}
    ELSE IF ~is_signer THEN {Return(MissingAuthorization, w)}
    ELSE IF ~campaign_decodes(len) THEN {Return(MalformedRecord, w)}
    ELSE IF clock < c.deadline THEN {Return(CampaignStillActive, w)}
    ELSE IF c.total_raised >= c.goal THEN {Return(GoalWasReached, w)}
    ELSE IF ~record_owned(r) THEN {Return(RecordWrongOwner, w)}
    ELSE IF ~record_decodes(r) THEN {Return(MalformedRecord, w)}
    ELSE IF amount = 0 THEN {Return(NothingToRefund, w)}
    ELSE { IF s.panic THEN Return(Panicked, w)
           ELSE IF a.panic
                THEN Return(Panicked, [w EXCEPT !.campaign_lamports = s.val])
           ELSE Return(Ok, [w EXCEPT !.campaign_lamports = s.val,
                                     !.lamports[key] = a.val,
                                     !.records[r] = 0])
           : s \in unchecked_sub(w.campaign_lamports, amount),
             a \in unchecked_add(w.lamports[key], amount) }

\* ------------------------------------------------------------------- host

RECURSIVE SumOver(_, _)
SumOver(f, S) ==
    IF S = {} THEN 0
    ELSE LET x == CHOOSE y \in S : TRUE IN f[x] + SumOver(f, S \ {x})

\* lamports held by all accounts of a world
TotalLamports(w) == w.campaign_lamports + SumOver(w.lamports, Keys)

\* the runtime keeps a handler's writes only if it returned Ok and the
\* instruction neither created nor destroyed lamports
HostAccepts(w, out) ==
    out.res = Ok /\ TotalLamports(out.world) = TotalLamports(w)

\* what the client is told
HostResult(w, out) ==
    IF out.res = Ok /\ ~HostAccepts(w, out) THEN Unbalanced ELSE out.res

\* the ledger after the invocation: the handler's accounts, or the old ones
Commit(w, out) == IF HostAccepts(w, out) THEN out.world ELSE w

\* one invocation, from the handler's return to the ledger
Deliver(op, out) ==
    LET w == Commit(World, out) IN
    /\ campaign' = w.campaign
    /\ campaign_lamports' = w.campaign_lamports
    /\ lamports' = w.lamports
    /\ records' = w.records
    /\ Idle
    /\ ret' = [op |-> op, err |-> HostResult(World, out), at_return |-> out.world]
    /\ UNCHANGED <<slot, campaign_len>>
    /\ UNCHANGED counter_vars


\* ---------------------------------------------------------------- actions

\* goal arguments: the rejected one and a positive one
Goals == {0, Goal}
\* amount arguments: nothing, and what a wallet can hold at the start
Amounts == 0 .. InitialLamports
\* duration arguments: the rejected one, the shortest one, and the longest one
Durations == {0, 1, U64_MAX}
\* <<campaign account owned by the program, acting account signed>>
GoodFlags == {<<TRUE, TRUE>>}
\* the two ways a client can get one of them wrong
BadFlags == {<<FALSE, TRUE>>, <<TRUE, FALSE>>}

\* the calls clients make: every well-formed call, and each malformed call once
\* per acting key (a malformed call is rejected before its arguments are read)
InitializeInputs ==
    (GoodFlags \X Keys \X Goals \X Durations)
        \cup (BadFlags \X Keys \X {Goal} \X {1})
ContributeInputs ==
    (GoodFlags \X Records \X Keys \X Amounts)
        \cup (BadFlags \X {"r1"} \X Keys \X {1})
WithdrawInputs == (GoodFlags \cup BadFlags) \X Keys
RefundInputs ==
    (GoodFlags \X Records \X Keys) \cup (BadFlags \X {"r1"} \X Keys)

Init ==
    /\ slot = 0
    /\ campaign_len \in {CampaignLen, TestCampaignLen}
    /\ campaign = ZeroCampaign
    /\ campaign_lamports = 0
    /\ lamports = [k \in Keys |-> InitialLamports]
    /\ records = [r \in Records |-> record_init(r)]
    /\ ret = [op |-> "none"]
    /\ accepted = 0
    /\ refunded = 0
    /\ withdrawn = 0
    /\ carried = 0
    /\ ever_withdrawn = FALSE
    /\ counter_len = CounterLen
    /\ counter = ZeroCounter
    /\ inflight = [k \in Keys |-> NoCall]

Initialize(campaign_owned, key, is_signer, goal, duration_slots) ==
    \E out \in initialize(World, campaign_len, slot, campaign_owned, key,
                          is_signer, goal, duration_slots) :
        /\ Deliver("Initialize", out)
        /\ IF HostAccepts(World, out)
           THEN /\ accepted' = 0
                /\ refunded' = 0
                /\ withdrawn' = 0
                /\ carried' = campaign_lamports
           ELSE UNCHANGED <<accepted, refunded, withdrawn, carried>>
        /\ UNCHANGED <<ever_withdrawn, inflight>>

Contribute(campaign_owned, r, key, is_signer, amount) ==
    \E out \in contribute(World, campaign_len, slot, campaign_owned, r, key,
                          is_signer, amount) :
        /\ Deliver("Contribute", out)
        /\ accepted' = IF HostAccepts(World, out) THEN accepted + amount ELSE accepted
        /\ UNCHANGED <<refunded, withdrawn, carried, ever_withdrawn, inflight>>

Withdraw(campaign_owned, key, is_signer) ==
    \E out \in withdraw(World, campaign_len, slot, campaign_owned, key,
                        is_signer) :
        /\ Deliver("Withdraw", out)
        /\ withdrawn' = IF HostAccepts(World, out)
                        THEN withdrawn + campaign.total_raised ELSE withdrawn
        /\ ever_withdrawn' = (ever_withdrawn \/ HostAccepts(World, out))
        /\ UNCHANGED <<accepted, refunded, carried, inflight>>

Refund(campaign_owned, r, key, is_signer) ==
    \E out \in refund(World, campaign_len, slot, campaign_owned, r, key,
                      is_signer) :
        /\ Deliver("Refund", out)
        /\ refunded' = IF HostAccepts(World, out)
                       THEN refunded + records[r] ELSE refunded
        /\ UNCHANGED <<accepted, withdrawn, carried, ever_withdrawn, inflight>>

\* the slot clock advances
Tick ==
    /\ Idle
    /\ slot < MaxSlot
    /\ slot' = slot + 1
    /\ UNCHANGED <<campaign_len, campaign, campaign_lamports, lamports, records,
                   ret, accepted, refunded, withdrawn, carried, ever_withdrawn,
                   inflight>>
    /\ UNCHANGED counter_vars

\* the client takes the answer of its invocation; the ledger is as Deliver left it
Answer ==
    /\ ~Idle
    /\ ret' = [op |-> "none"]
    /\ UNCHANGED <<slot, campaign_len, campaign, campaign_lamports, lamports,
                   records, accepted, refunded, withdrawn, carried,
                   ever_withdrawn, inflight>>
    /\ UNCHANGED counter_vars

\* process_instruction: one decoded instruction, dispatched to its handler
InitializeStep(i) == Initialize(i[1][1], i[2], i[1][2], i[3], i[4])
ContributeStep(i) == Contribute(i[1][1], i[2], i[3], i[1][2], i[4])
WithdrawStep(i) == Withdraw(i[1][1], i[2], i[1][2])
RefundStep(i) == Refund(i[1][1], i[2], i[3], i[1][2])

Next ==
    \/ \E i \in InitializeInputs : InitializeStep(i)
    \/ \E i \in ContributeInputs : ContributeStep(i)
    \/ \E i \in WithdrawInputs : WithdrawStep(i)
    \/ \E i \in RefundInputs : RefundStep(i)
    \/ Tick
    \/ Answer

Spec == Init /\ [][Next]_vars

\* -------------------------------------------------------- counter program

\* counter.rs rejections: ProgramError variant + msg! text
CounterNotWritable == Result("InvalidAccountData", "")
CounterAlreadyInitialized == Result("AccountAlreadyInitialized", "")
CounterUninitialized == Result("UninitializedAccount", "")
OnlyOwnerCanIncrement == Result("InvalidAccountData", "Only owner can increment")
OnlyOwnerCanDecrement == Result("InvalidAccountData", "Only owner can decrement")
CounterOverflow == Result("InvalidInstructionData", "")

\* u64::checked_sub: None below zero
checked_sub(a, b) == IF a >= b THEN a - b ELSE -1

\* a counter handler's return: its result and the CounterAccount in the buffer
CounterReturn(res, c) == [res |-> res, counter |-> c]

\* counter.rs initialize
counter_initialize(c, len, counter_owned, is_writable, owner_key, is_signer) ==
    LET counter_data == IF counter_decodes(len) THEN c ELSE ZeroCounter IN
    IF ~counter_owned THEN CounterReturn(WrongOwner, c)
    ELSE IF ~is_writable THEN CounterReturn(CounterNotWritable, c)
    ELSE IF ~is_signer THEN CounterReturn(MissingAuthorization, c)
    ELSE IF counter_data.is_initialized
        THEN CounterReturn(CounterAlreadyInitialized, c)
    ELSE IF ~counter_encodes(len) THEN CounterReturn(BufferTooSmall, c)
    ELSE CounterReturn(Ok, [is_initialized |-> TRUE, count |-> 0,
                            owner |-> owner_key])

\* increment as it would be with a wrapping addition
increment_wrapping(c, len, counter_owned, is_writable, signer_key, is_signer) ==
    IF ~counter_owned THEN CounterReturn(WrongOwner, c)
    ELSE IF ~is_writable THEN CounterReturn(CounterNotWritable, c)
    ELSE IF ~is_signer THEN CounterReturn(MissingAuthorization, c)
    ELSE IF ~counter_decodes(len) THEN CounterReturn(MalformedRecord, c)
    ELSE IF ~c.is_initialized THEN CounterReturn(CounterUninitialized, c)
    ELSE IF c.owner # signer_key THEN CounterReturn(OnlyOwnerCanIncrement, c)
    ELSE CounterReturn(Ok, [c EXCEPT !.count = (c.count + 1) % (U64_MAX + 1)])

\* counter.rs increment
increment(c, len, counter_owned, is_writable, signer_key, is_signer) ==
    IF ~counter_owned THEN CounterReturn(WrongOwner, c)
    ELSE IF ~is_writable THEN CounterReturn(CounterNotWritable, c)
    ELSE IF ~is_signer THEN CounterReturn(MissingAuthorization, c)
    ELSE IF ~counter_decodes(len) THEN CounterReturn(MalformedRecord, c)
    ELSE IF ~c.is_initialized THEN CounterReturn(CounterUninitialized, c)
    ELSE IF c.owner # signer_key THEN CounterReturn(OnlyOwnerCanIncrement, c)
    ELSE IF checked_add(c.count, 1) < 0 THEN CounterReturn(CounterOverflow, c)
    ELSE CounterReturn(Ok, [c EXCEPT !.count = checked_add(c.count, 1)])

\* counter.rs decrement
decrement(c, len, counter_owned, is_writable, signer_key, is_signer) ==
    IF ~counter_owned THEN CounterReturn(WrongOwner, c)
    ELSE IF ~is_writable THEN CounterReturn(CounterNotWritable, c)
    ELSE IF ~is_signer THEN CounterReturn(MissingAuthorization, c)
    ELSE IF ~counter_decodes(len) THEN CounterReturn(MalformedRecord, c)
    ELSE IF ~c.is_initialized THEN CounterReturn(CounterUninitialized, c)
    ELSE IF c.owner # signer_key THEN CounterReturn(OnlyOwnerCanDecrement, c)
    ELSE IF checked_sub(c.count, 1) < 0 THEN CounterReturn(CounterOverflow, c)
    ELSE CounterReturn(Ok, [c EXCEPT !.count = checked_sub(c.count, 1)])

\* <<counter account owned by the program, writable, acting account signed>>
CounterGoodFlags == {<<TRUE, TRUE, TRUE>>}
CounterBadFlags == {<<FALSE, TRUE, TRUE>>, <<TRUE, FALSE, TRUE>>, <<TRUE, TRUE, FALSE>>}
\* the calls clients make to the counter program: flags and acting key
CounterInputs == (CounterGoodFlags \cup CounterBadFlags) \X Keys

\* the crowdfund accounts, which the counter program never touches
crowdfund_vars == <<slot, campaign_len, campaign, campaign_lamports, lamports,
                    records, accepted, refunded, withdrawn, carried,
                    ever_withdrawn>>

\* the counter account before any instruction, in a buffer of the exact size
\* or of the size the tests allocate
CounterInit ==
    /\ slot = 0
    /\ campaign_len = CampaignLen
    /\ campaign = ZeroCampaign
    /\ campaign_lamports = 0
    /\ lamports = [k \in Keys |-> InitialLamports]
    /\ records = [r \in Records |-> record_init(r)]
    /\ ret = [op |-> "none"]
    /\ accepted = 0
    /\ refunded = 0
    /\ withdrawn = 0
    /\ carried = 0
    /\ ever_withdrawn = FALSE
    /\ counter_len \in {CounterLen, TestCounterLen}
    /\ counter = ZeroCounter
    /\ inflight = [k \in Keys |-> NoCall]

\* one counter invocation: a handler that fails has written nothing
CounterDeliver(op, out) ==
    /\ Idle
    /\ counter' = out.counter
    /\ ret' = [op |-> op, err |-> out.res, at_return |-> out.counter]
    /\ UNCHANGED counter_len
    /\ UNCHANGED <<crowdfund_vars, inflight>>

CounterInitialize(i) ==
    CounterDeliver("CounterInitialize",
        counter_initialize(counter, counter_len, i[1][1], i[1][2], i[2], i[1][3]))
Increment(i) ==
    CounterDeliver("Increment",
        increment(counter, counter_len, i[1][1], i[1][2], i[2], i[1][3]))
Decrement(i) ==
    CounterDeliver("Decrement",
        decrement(counter, counter_len, i[1][1], i[1][2], i[2], i[1][3]))

CounterNext ==
    \/ \E i \in CounterInputs : CounterInitialize(i)
    \/ \E i \in CounterInputs : Increment(i)
    \/ \E i \in CounterInputs : Decrement(i)
    \/ Answer

CounterSpec == CounterInit /\ [][CounterNext]_vars

\* ------------------------------------------- concurrent Contribute calls

\* each contributor passes a contributor record of its own
record_of(k) == IF k = "k1" THEN "r1" ELSE "r2"

\* nobody holds the write lease on the campaign account
LeaseFree == \A k \in Keys : inflight[k].phase # "running"
\* the runtime lets k's invocation start: it grants the write lease on the
\* campaign account to one invocation at a time
HostGrantsLease(k) == LeaseFree

\* a client issues Contribute { amount } signed by k
SubmitContribute(k, amount) ==
    /\ inflight[k].phase = "none"
    /\ inflight' = [inflight EXCEPT ![k] = [phase |-> "submitted", amount |-> amount]]
    /\ UNCHANGED <<crowdfund_vars, ret, counter_vars>>

\* lines 114-138: the handler starts, reads the clock and deserializes the
\* campaign record
BeginContribute(k) ==
    /\ inflight[k].phase = "submitted"
    /\ HostGrantsLease(k)
    /\ inflight' = [inflight EXCEPT ![k] =
                      [phase |-> "running", amount |-> inflight[k].amount,
                       clock |-> slot, campaign |-> campaign]]
    /\ UNCHANGED <<crowdfund_vars, ret, counter_vars>>

\* lines 140-191: the handler runs to its end on the record it read and
\* serializes it back; the lease ends with the invocation
EndContribute(k) ==
    /\ inflight[k].phase = "running"
    /\ \E out \in contribute([World EXCEPT !.campaign = inflight[k].campaign],
                              campaign_len, inflight[k].clock, TRUE,
                              record_of(k), k, TRUE, inflight[k].amount) :
            /\ Deliver("Contribute", out)
            /\ accepted' = IF HostAccepts(World, out)
                           THEN accepted + inflight[k].amount ELSE accepted
    /\ inflight' = [inflight EXCEPT ![k] = NoCall]
    /\ UNCHANGED <<refunded, withdrawn, carried, ever_withdrawn>>

\* Initialize writes the campaign account too, so it waits for the lease
LeaseInitialize(i) == LeaseFree /\ InitializeStep(i)

LeaseNext ==
    \/ \E i \in InitializeInputs : LeaseInitialize(i)
    \/ \E k \in Keys, amount \in Amounts : SubmitContribute(k, amount)
    \/ \E k \in Keys : BeginContribute(k)
    \/ \E k \in Keys : EndContribute(k)
    \/ Tick
    \/ Answer

LeaseSpec == Init /\ [][LeaseNext]_vars

\* ------------------------------------------------------------ vocabulary

\* the latest invocation was `op` and the client was told `err`
Returned(op, err) == ret.op = op /\ ret.err = err
\* the latest invocation was `op` and it was kept by the ledger
Succeeded(op) == Returned(op, Ok)
\* this step changes no account
AccountsUnchanged == World' = World
\* this step's handler returned with every account as it found it
HandlerTouchedNothing == ret'.at_return = World
\* this step moves no lamports
NoValueMoved == campaign_lamports' = campaign_lamports /\ lamports' = lamports

\* ------------------------------------------------------------------- C1

\* C1 as stated: on a campaign account that held no lamports when it was
\* initialized, the balance equals campaign.total_raised in every reachable state.
C1_BalanceEqualsTotalRaised ==
    (campaign.is_initialized /\ carried = 0)
        => campaign_lamports = campaign.total_raised

\* C1 amended: the balance equals total_raised as long as the account held no
\* lamports at its latest successful Initialize and no Withdraw or Refund has
\* succeeded since; Withdraw and Refund debit the balance, not total_raised.
C1_BalanceUntilPayout ==
    (carried = 0 /\ withdrawn = 0 /\ refunded = 0)
        => campaign_lamports = campaign.total_raised

\* contributions have reached the goal on a fresh account and nothing is paid out
C1_Witness ==
    /\ Succeeded("Contribute")
    /\ carried = 0 /\ withdrawn = 0 /\ refunded = 0
    /\ campaign.total_raised >= campaign.goal
    /\ campaign_lamports = campaign.total_raised

\* ------------------------------------------------------------------- C2

\* C2 as stated: total_raised is what Contribute accepted minus what Refund
\* paid out (both counted from the latest successful Initialize).
C2_TotalRaisedNetOfRefunds == campaign.total_raised = accepted - refunded

\* C2 amended: total_raised is the sum of the amounts accepted by successful
\* Contribute invocations since the latest successful Initialize; a Refund
\* does not reduce it.
C2_TotalRaisedIsAccepted == campaign.total_raised = accepted

\* a Refund has paid out and total_raised is still everything accepted
C2_Witness ==
    /\ Succeeded("Refund")
    /\ refunded > 0
    /\ campaign.total_raised = accepted

\* ------------------------------------------------------------------- C3

\* C3 as stated: from a state with finalized = true no step resets the flag
\* and no step moves value, whichever instruction it runs.
C3_FinalizedIsTerminal ==
    [][campaign.finalized => (campaign'.finalized /\ NoValueMoved)]_vars

\* ------------------------------------------------------------------- C4

\* C4 as stated: once a campaign is initialized its owner never changes,
\* whichever instruction runs and whoever signs it.
C4_OwnerImmutable ==
    [][campaign.is_initialized => campaign'.owner = campaign.owner]_vars

\* ------------------------------------------------------------------- C5

\* C5: a successful Withdraw sets finalized; every Withdraw on a finalized
\* record fails with every account as it was, also when the handler returns,
\* and the owner's well-formed Withdraw at or after the deadline fails with
\* AlreadyFinalized.
C5_WithdrawAtMostOnce ==
    [][ret'.op = "Withdraw" => \A i \in WithdrawInputs :
        WithdrawStep(i) =>
            /\ ret'.err = Ok => (~campaign.finalized /\ campaign'.finalized)
            /\ campaign.finalized =>
                /\ ret'.err # Ok
                /\ AccountsUnchanged
                /\ HandlerTouchedNothing
                /\ (i[1] \in GoodFlags /\ i[2] = campaign.owner
                        /\ slot >= campaign.deadline)
                      => ret'.err = AlreadyFinalized
      ]_vars

\* the owner has tried a second Withdraw and got AlreadyFinalized
C5_Witness ==
    /\ Returned("Withdraw", AlreadyFinalized)
    /\ campaign.finalized
    /\ withdrawn > 0
    /\ campaign_lamports = 0

\* ------------------------------------------------------------------- C6

\* C6: a Withdraw whose account [1] is not campaign.owner fails with every
\* account as it was (NotOwner when the call is well-formed and the record
\* decodes, whatever the slot, total_raised and finalized are); a successful
\* Withdraw is the owner's and credits total_raised to the owner alone.
C6_OnlyOwnerWithdraws ==
    [][ret'.op = "Withdraw" => \A i \in WithdrawInputs :
        WithdrawStep(i) =>
            /\ i[2] # campaign.owner =>
                /\ ret'.err # Ok
                /\ AccountsUnchanged
                /\ HandlerTouchedNothing
                /\ (i[1] \in GoodFlags /\ campaign_decodes(campaign_len))
                      => ret'.err = NotOwner
            /\ ret'.err = Ok =>
                /\ i[2] = campaign.owner
                /\ campaign'.owner = campaign.owner
                /\ \A k \in Keys : k # campaign.owner => lamports'[k] = lamports[k]
                /\ lamports'[campaign.owner]
                      = lamports[campaign.owner] + campaign.total_raised
      ]_vars

\* someone else asked for the funds of a campaign that met its goal, after the
\* deadline, and was refused
C6_Witness ==
    /\ Returned("Withdraw", NotOwner)
    /\ campaign.is_initialized
    /\ ~campaign.finalized
    /\ slot >= campaign.deadline
    /\ campaign.total_raised >= campaign.goal
    /\ campaign_lamports > 0

\* ------------------------------------------------------------------- C7

\* C7: between two successful Initializes never both a Withdraw and a Refund
\* succeed; from the deadline on total_raised is changed by Initialize alone.
C7_WithdrawXorRefund ==
    /\ [](~(withdrawn > 0 /\ refunded > 0))
    /\ [][(slot >= campaign.deadline /\ ret'.op # "Initialize")
            => campaign'.total_raised = campaign.total_raised]_vars

\* after a successful Withdraw a contributor asked for a Refund and was refused
C7_Witness ==
    /\ Returned("Refund", GoalWasReached)
    /\ withdrawn > 0
    /\ campaign.finalized
    /\ \E r \in Records : record_owned(r) /\ records[r] > 0

\* ------------------------------------------------------------------- C8

\* C8: a successful Refund finds a positive amount in the record and leaves 0
\* there, and the same Refund asked again in the state it leaves is answered
\* NothingToRefund; a Refund on a record holding 0 fails with every account as
\* it was, with NothingToRefund whenever the checks before the record pass.
C8_RefundAtMostOnce ==
    [][ret'.op = "Refund" => \A i \in RefundInputs :
        RefundStep(i) =>
            /\ ret'.err = Ok =>
                /\ records[i[2]] > 0
                /\ records'[i[2]] = 0
                /\ \A k \in Keys :
                     refund(World', campaign_len, slot, TRUE, i[2], k, TRUE)
                        = {Return(NothingToRefund, World')}
            /\ records[i[2]] = 0 =>
                /\ ret'.err # Ok
                /\ AccountsUnchanged
                /\ HandlerTouchedNothing
                /\ (/\ i[1] \in GoodFlags
                    /\ campaign_decodes(campaign_len)
                    /\ slot >= campaign.deadline
                    /\ campaign.total_raised < campaign.goal
                    /\ record_owned(i[2]) /\ record_decodes(i[2]))
                      => ret'.err = NothingToRefund
      ]_vars

\* a record was refunded and a further Refund on it was answered NothingToRefund
C8_Witness ==
    /\ Returned("Refund", NothingToRefund)
    /\ refunded > 0
    /\ refunded = accepted
    /\ \A r \in Records : record_owned(r) => records[r] = 0

\* ------------------------------------------------------------------- C9

\* C9 as stated: when Contribute returns ArithmeticOverflow the handler has
\* made no transfer and written no record: the accounts it returns with are
\* the accounts it was called with.
C9_OverflowBeforeAnyUpdate ==
    Returned("Contribute", ArithmeticOverflow) => ret.at_return = World

\* C9 amended: when Contribute returns ArithmeticOverflow the handler has
\* already moved `amount` from the contributor to the campaign account (the
\* campaign record is not yet written); the ledger shows no change because the
\* runtime drops the writes of a failed invocation.
C9_OverflowAfterTransfer ==
    [][ret'.op = "Contribute" => \A i \in ContributeInputs :
        (ContributeStep(i) /\ ret'.err = ArithmeticOverflow) =>
            /\ i[4] > 0
            /\ ret'.at_return.campaign_lamports = campaign_lamports + i[4]
            /\ ret'.at_return.lamports[i[3]] = lamports[i[3]] - i[4]
            /\ ret'.at_return.campaign = campaign
            /\ AccountsUnchanged
      ]_vars

\* an overflowing Contribute has returned with the lamports already moved
C9_Witness ==
    /\ Returned("Contribute", ArithmeticOverflow)
    /\ ret.at_return.campaign_lamports > campaign_lamports
    /\ ret.at_return.records = records

\* ------------------------------------------------------------------ C10

\* C10 as stated: a well-formed Contribute on an initialized campaign at or
\* after the deadline fails with CampaignEnded whatever the amount, 0 included,
\* and changes nothing.
C10_EndedWhateverAmount ==
    [][\A i \in ContributeInputs :
        (/\ ContributeStep(i)
         /\ i[1] \in GoodFlags
         /\ campaign_decodes(campaign_len)
         /\ campaign.is_initialized
         /\ slot >= campaign.deadline)
            => (ret'.err = CampaignEnded /\ AccountsUnchanged)
      ]_vars

\* C10 amended: the same for every amount > 0 (amount = 0 is rejected first,
\* with InvalidParameters), whatever finalized is; the handler returns with
\* every account as it found it.
C10_EndedPositiveAmount ==
    [][ret'.op = "Contribute" => \A i \in ContributeInputs :
        (/\ ContributeStep(i)
         /\ i[1] \in GoodFlags
         /\ campaign_decodes(campaign_len)
         /\ campaign.is_initialized
         /\ slot >= campaign.deadline)
            => /\ ret'.err = (IF i[4] = 0 THEN InvalidAmount ELSE CampaignEnded)
               /\ AccountsUnchanged
               /\ HandlerTouchedNothing
      ]_vars

\* a Contribute in the deadline slot itself, on a finalized campaign, was
\* answered CampaignEnded
C10_Witness ==
    /\ Returned("Contribute", CampaignEnded)
    /\ slot = campaign.deadline
    /\ campaign.finalized

\* ------------------------------------------------------------------ C11

\* C11 as stated: the owner's well-formed Withdraw on a campaign with
\* total_raised < goal is answered GoalNotReached at every slot.
C11_GoalNotReachedAtAnyTime ==
    [][\A i \in WithdrawInputs :
        (/\ WithdrawStep(i)
         /\ i[1] \in GoodFlags
         /\ campaign_decodes(campaign_len)
         /\ i[2] = campaign.owner
         /\ campaign.total_raised < campaign.goal)
            => ret'.err = GoalNotReached
      ]_vars

\* C11 amended: the owner's well-formed Withdraw on a campaign with
\* total_raised < goal never succeeds and changes nothing; it is answered
\* CampaignStillActive before the deadline and GoalNotReached from the
\* deadline on (such a campaign is never finalized).
C11_GoalNotReachedFromDeadline ==
    [][ret'.op = "Withdraw" => \A i \in WithdrawInputs :
        (/\ WithdrawStep(i)
         /\ i[1] \in GoodFlags
         /\ campaign_decodes(campaign_len)
         /\ i[2] = campaign.owner
         /\ campaign.total_raised < campaign.goal)
            => /\ ~campaign.finalized
               /\ ret'.err = (IF slot < campaign.deadline
                              THEN CampaignStillActive ELSE GoalNotReached)
               /\ AccountsUnchanged
               /\ HandlerTouchedNothing
      ]_vars

\* the owner asked for the funds of an ended campaign that raised something
\* but not the goal, and was answered GoalNotReached
C11_Witness ==
    /\ Returned("Withdraw", GoalNotReached)
    /\ slot >= campaign.deadline
    /\ campaign.total_raised > 0
    /\ campaign.total_raised < campaign.goal
    /\ campaign_lamports > 0

\* ------------------------------------------------------------------ C12

\* C12: the owner's well-formed Withdraw before the deadline is answered
\* CampaignStillActive whatever total_raised is, finalized is false before and
\* after, and no account changes, also when the handler returns.
C12_NoEarlyWithdraw ==
    [][ret'.op = "Withdraw" => \A i \in WithdrawInputs :
        (/\ WithdrawStep(i)
         /\ i[1] \in GoodFlags
         /\ campaign_decodes(campaign_len)
         /\ i[2] = campaign.owner
         /\ slot < campaign.deadline)
            => /\ ret'.err = CampaignStillActive
               /\ ~campaign.finalized /\ ~campaign'.finalized
               /\ AccountsUnchanged
               /\ HandlerTouchedNothing
      ]_vars

\* the goal was met before the deadline and the owner's Withdraw was refused
C12_Witness ==
    /\ Returned("Withdraw", CampaignStillActive)
    /\ slot < campaign.deadline
    /\ campaign.total_raised >= campaign.goal
    /\ campaign_lamports >= campaign.goal
    /\ ~campaign.finalized

\* ------------------------------------------------------------------ C13

\* C13: a successful Initialize starts total_raised at 0; every successful
\* Contribute is made before the deadline and adds its amount to total_raised
\* and to the campaign account's balance (the first one after Initialize
\* leaves total_raised = amount); so on an account that was empty when it was
\* initialized, while only Contributes have succeeded since, total_raised and
\* the balance both equal the sum of the amounts contributed.
C13_ContributionsAddUp ==
    /\ [][(campaign'.is_initialized /\ carried' = 0 /\ withdrawn' = 0 /\ refunded' = 0)
            => (campaign'.total_raised = accepted' /\ campaign_lamports' = accepted')]_vars
    /\ [][(ret'.op = "Initialize" /\ ret'.err = Ok)
            => (campaign'.total_raised = 0 /\ accepted' = 0)]_vars
    /\ [][(ret'.op = "Contribute" /\ ret'.err = Ok) =>
            /\ slot < campaign.deadline
            /\ \E amount \in Amounts \ {0} :
                /\ accepted' = accepted + amount
                /\ campaign'.total_raised = campaign.total_raised + amount
                /\ campaign_lamports' = campaign_lamports + amount
                /\ accepted = 0 => campaign'.total_raised = amount]_vars

\* two wallets have contributed to a fresh campaign, one after the other, and
\* nothing else has succeeded since it was initialized
C13_Witness ==
    /\ Succeeded("Contribute")
    /\ campaign.is_initialized /\ carried = 0 /\ withdrawn = 0 /\ refunded = 0
    /\ accepted > InitialLamports
    /\ \A k \in Keys : lamports[k] < InitialLamports
    /\ campaign.total_raised = accepted
    /\ campaign_lamports = accepted

\* ------------------------------------------------------------------ C14

\* C14 as stated: a well-formed Initialize with goal > 0 and duration > 0
\* succeeds whatever the account held and leaves is_initialized = true,
\* owner = signer, goal = goal, total_raised = 0, finalized = false; with
\* goal = 0 or duration = 0 it is answered InvalidParameters and the record is
\* unchanged.
C14_InitializeWritesFreshRecord ==
    [][\A i \in InitializeInputs :
        (InitializeStep(i) /\ i[1] \in GoodFlags) =>
            IF i[3] > 0 /\ i[4] > 0
            THEN /\ ret'.err = Ok
                 /\ campaign'.is_initialized
                 /\ campaign'.owner = i[2]
                 /\ campaign'.goal = i[3]
                 /\ campaign'.total_raised = 0
                 /\ ~campaign'.finalized
            ELSE /\ ret'.err \in {InvalidGoal, InvalidDuration}
                 /\ campaign' = campaign
      ]_vars

\* ------------------------------------------------------------------ C15

\* C15: the owner's well-formed Increment on an initialized counter holding
\* the maximum u64 value fails and changes nothing; a successful Increment
\* stores count + 1, a successful Decrement count - 1, so no Increment lowers
\* the count and no Decrement raises it, and the count stays a u64.
C15_CounterNeverWraps ==
    /\ [](counter.count \in 0 .. U64_MAX)
    /\ [][\A i \in CounterInputs :
            Increment(i) =>
                /\ (/\ i[1] \in CounterGoodFlags
                    /\ counter_decodes(counter_len)
                    /\ counter.is_initialized
                    /\ counter.owner = i[2]
                    /\ counter.count = U64_MAX)
                      => (ret'.err = CounterOverflow /\ counter' = counter)
                /\ counter.count = U64_MAX => (ret'.err # Ok /\ counter' = counter)
                /\ ret'.err = Ok => counter'.count = counter.count + 1
                /\ counter'.count >= counter.count]_vars
    /\ [][\A i \in CounterInputs :
            Decrement(i) =>
                /\ counter.count = 0 => (ret'.err # Ok /\ counter' = counter)
                /\ ret'.err = Ok => counter'.count = counter.count - 1
                /\ counter'.count <= counter.count]_vars

\* the owner's Increment on a counter at the maximum was refused
C15_Witness ==
    /\ Returned("Increment", CounterOverflow)
    /\ counter.is_initialized
    /\ counter.count = U64_MAX

\* ------------------------------------------------------------------ C16

\* C16 as stated, on histories without a Withdraw (the only other credit a
\* wallet can get): what a wallet got back through Refunds never exceeds what
\* it paid in through Contributes, so no wallet holds more than it started with.
C16_RefundOnlyOwnContribution ==
    ~ever_withdrawn => \A k \in Keys : lamports[k] <= InitialLamports

\* ------------------------------------------------------------------ C17

\* C17 as stated: every successful Contribute adds exactly its amount to the
\* amount stored in the record passed in position [1] and to total_raised,
\* whatever that record account is.
C17_ContributeIsRecorded ==
    [][\A i \in ContributeInputs :
        (ContributeStep(i) /\ ret'.err = Ok) =>
            /\ records'[i[2]] = records[i[2]] + i[4]
            /\ campaign'.total_raised = campaign.total_raised + i[4]
      ]_vars

\* ------------------------------------------------------------------ C18

\* C18: the owner's well-formed Withdraw at or after the deadline on a
\* campaign that is not finalized and has total_raised >= goal succeeds, and
\* only such a Withdraw does; it sets finalized, moves exactly total_raised
\* from the campaign account to the owner, and leaves the other fields of the
\* record, the other wallets and every contributor record as they were.
C18_WithdrawEffect ==
    [][ret'.op = "Withdraw" => \A i \in WithdrawInputs :
        WithdrawStep(i) =>
            /\ ret'.err = Ok <=>
                    /\ i[1] \in GoodFlags
                    /\ campaign_decodes(campaign_len)
                    /\ i[2] = campaign.owner
                    /\ slot >= campaign.deadline
                    /\ ~campaign.finalized
                    /\ campaign.total_raised >= campaign.goal
            /\ ret'.err = Ok =>
                    /\ campaign' = [campaign EXCEPT !.finalized = TRUE]
                    /\ campaign_lamports' = campaign_lamports - campaign.total_raised
                    /\ campaign_lamports' >= 0
                    /\ lamports' = [lamports EXCEPT
                                      ![i[2]] = @ + campaign.total_raised]
                    /\ records' = records
      ]_vars

\* the owner has withdrawn from an account that held more than total_raised:
\* the surplus stays, the contributor records still hold what was contributed
C18_Witness ==
    /\ Succeeded("Withdraw")
    /\ campaign.finalized
    /\ withdrawn = campaign.total_raised
    /\ campaign.total_raised >= campaign.goal
    /\ campaign_lamports = carried
    /\ lamports[campaign.owner] >= campaign.total_raised
    /\ \E r \in Records : record_owned(r) /\ records[r] > 0

\* ------------------------------------------------------------------ C19

\* C19 as stated: a successful Refund moves exactly the record's amount from
\* the campaign account to the signer, zeroes that record and changes nothing
\* else, the campaign record included; every other program-owned record that
\* holds an amount can then be refunded, whoever signs.
C19_RefundLeavesOthersRefundable ==
    [][\A i \in RefundInputs :
        (RefundStep(i) /\ ret'.err = Ok) =>
            /\ campaign' = campaign
            /\ campaign_lamports' = campaign_lamports - records[i[2]]
            /\ lamports' = [lamports EXCEPT ![i[3]] = @ + records[i[2]]]
            /\ records' = [records EXCEPT ![i[2]] = 0]
            /\ \A r \in Records \ {i[2]} :
                 (record_owned(r) /\ record_decodes(r) /\ records'[r] > 0) =>
                    \A k \in Keys :
                      \A out \in refund(World', campaign_len, slot, TRUE, r, k, TRUE) :
                        HostAccepts(World', out)
      ]_vars

\* ------------------------------------------------------------------ C20

\* C20: with the runtime granting the write lease on the campaign account to
\* one invocation at a time, Contribute invocations issued at the same time by
\* different contributors with records of their own take effect one after the
\* other: each one, when it ends, has done what the handler run in one piece
\* on the accounts of that moment does; a successful one adds its amount to
\* total_raised and to its own record and touches no other record, a failed
\* one changes nothing; total_raised is the sum of the accepted amounts.
C20_ContributesSerialize ==
    /\ [](campaign.total_raised = accepted)
    /\ [](Cardinality({k \in Keys : inflight[k].phase = "running"}) <= 1)
    /\ [][\A k \in Keys :
            EndContribute(k) =>
                /\ \E out \in contribute(World, campaign_len, inflight[k].clock,
                                         TRUE, record_of(k), k, TRUE,
                                         inflight[k].amount) :
                        /\ World' = Commit(World, out)
                        /\ ret'.err = HostResult(World, out)
                /\ ret'.err = Ok =>
                        /\ campaign'.total_raised
                              = campaign.total_raised + inflight[k].amount
                        /\ records' = [records EXCEPT
                                         ![record_of(k)] = @ + inflight[k].amount]
                        /\ campaign_lamports'
                              = campaign_lamports + inflight[k].amount
                /\ ret'.err # Ok => AccountsUnchanged]_vars

\* two contributors had a Contribute in flight at the same time: one has just
\* been accepted while the other still waits for the lease, and each record
\* holds what its own contributor paid
C20_Witness ==
    /\ Succeeded("Contribute")
    /\ \E k \in Keys : inflight[k].phase = "submitted" /\ inflight[k].amount > 0
    /\ \E k \in Keys : inflight[k].phase = "none" /\ records[record_of(k)] > 0
    /\ \A k \in Keys : records[record_of(k)] = InitialLamports - lamports[k]
    /\ campaign.total_raised = records["r1"] + records["r2"]
    /\ accepted = campaign.total_raised

\* ------------------------------------------------------------------ C21

\* C21 as stated: whenever Withdraw or Refund gets as far as debiting the
\* campaign account, the amount it debits (total_raised, the record's amount)
\* is at most the balance of the account: the subtraction neither panics nor
\* wraps, and a successful payout never takes more than the account holds.
C21_BalanceNeverUnderflows ==
    [][/\ (ret'.op = "Withdraw" /\ ret'.err \in {Ok, Panicked, Unbalanced})
            => campaign.total_raised <= campaign_lamports
       /\ ret'.op = "Refund" =>
            \A i \in RefundInputs :
                (RefundStep(i) /\ ret'.err \in {Ok, Panicked, Unbalanced})
                    => records[i[2]] <= campaign_lamports
      ]_vars

\* ------------------------------------------------------------------ C22

\* C22 as stated, for failed campaigns: once the deadline has passed with
\* total_raised < goal, on an account that was empty when it was initialized,
\* everything the account holds can be paid back by Refund, so the records
\* Refund accepts hold at least the balance of the account.
C22_NoValueLocked ==
    (/\ campaign.is_initialized
     /\ carried = 0
     /\ slot >= campaign.deadline
     /\ campaign.total_raised < campaign.goal)
        => campaign_lamports <=
              SumOver(records, {r \in Records : record_owned(r) /\ record_decodes(r)})

\* ------------------------------------------------------------------ C23

\* C23: a finalized campaign is past its deadline and has reached its goal,
\* and no Contribute is ever answered 'Campaign already finalized': the
\* deadline check comes first.
C23_FinalizedImpliesEnded ==
    /\ campaign.finalized =>
            (slot >= campaign.deadline /\ campaign.total_raised >= campaign.goal)
    /\ ~Returned("Contribute", AlreadyFinalizedContribute)

\* a contribution to a campaign the owner has withdrawn from was refused with
\* CampaignEnded, not with 'Campaign already finalized'
C23_Witness ==
    /\ Returned("Contribute", CampaignEnded)
    /\ campaign.finalized
    /\ withdrawn > 0
    /\ slot >= campaign.deadline
    /\ campaign.total_raised >= campaign.goal
    /\ ret.at_return = World

\* ------------------------------------------------------------------ C24

\* C24 as stated: after a successful Initialize at slot t with duration d the
\* deadline is t + d, so it lies after t.
C24_DeadlineInFuture ==
    [][ret'.op = "Initialize" => \A i \in InitializeInputs :
        (InitializeStep(i) /\ ret'.err = Ok) =>
            /\ campaign'.deadline = slot + i[4]
            /\ campaign'.deadline > slot
      ]_vars

====
